---------------------------- MODULE Spec2Model ----------------------------
(***************************************************************************)
(* A model of thpoker/core.py (YegorDB/phnl): the card primitives, the     *)
(* card containers (Cards, Table, Hand), and the combination engine Combo  *)
(* (Repeats, Sequence, find_combo, the get_* extractors, the comparator    *)
(* and the nominal check).                                                 *)
(*                                                                         *)
(* A card is a record [w, s, in_hand]: w is Card.Weight.number (0..13, 0   *)
(* the low Ace '1', 13 the Ace 'A'), s the index of the suit symbol in     *)
(* 'cdhs' (1..4), in_hand the Card.in_hand attribute.  An abstract card    *)
(* has w = NoWeight or s = NoSuit.  A Python list is a sequence; an        *)
(* attribute that is None or a card is a sequence of length 0 or 1.        *)
(***************************************************************************)
EXTENDS Integers, Sequences, FiniteSets, TLC

VARIABLES
    cards,      \* Cards.items of the caller's raw card group (Deck.cards in SpecHand)
    table,      \* Table.items of the caller's table
    hand,       \* the caller's Hand: [items, type, is_pair]
    rival,      \* Cards.items of a second raw card group
    combo,      \* the Combo last constructed (<<>> before construction)
    other,      \* the Combo of the rival group, the right operand of a comparison
    sequence,   \* a Combo.Sequence constructed on its own
    call        \* the arguments of the constructor call that produced combo

vars == <<cards, table, hand, rival, combo, other, sequence, call>>

-----------------------------------------------------------------------------
(* Card primitives *)

NoWeight == -1
NoSuit == 0
NumSuits == 4
AceLow == 0
Two == 1
Ace == 13
MaxCardsCount == 7
TableMaxCount == 5
HandMaxCount == 2
ComboLen == 5

HIGH_CARD == 1
ONE_PAIR == 2
TWO_PAIRS == 3
THREE_OF_A_KIND == 4
STRAIGHT == 5
FLUSH == 6
FULL_HOUSE == 7
FOUR_OF_A_KIND == 8
STRAIGHT_FLUSH == 9

\* Card(w + s): a standard card; in_hand is the class attribute False.
Card(w, s) == [w |-> w, s |-> s, in_hand |-> FALSE]

\* Card(w): an abstract card with a weight only.
WeightCard(w) == [w |-> w, s |-> NoSuit, in_hand |-> FALSE]

\* Card(s): an abstract card with a suit only.
SuitCard(s) == [w |-> NoWeight, s |-> s, in_hand |-> FALSE]

\* Card.__eq__: by weight when both cards have one, else by suit.
CardEq(a, b) ==
    IF a.w # NoWeight /\ b.w # NoWeight THEN a.w = b.w ELSE a.s = b.s

\* Card.__ne__
CardNe(a, b) ==
    IF a.w # NoWeight /\ b.w # NoWeight THEN a.w # b.w ELSE a.s # b.s

\* Card.__lt__ and Card.__gt__: by weight number.
CardLt(a, b) == a.w < b.w

CardGt(a, b) == a.w > b.w

-----------------------------------------------------------------------------
(* Python list helpers *)

Min2(a, b) == IF a < b THEN a ELSE b

Max2(a, b) == IF a > b THEN a ELSE b

\* item in list (list.__contains__, by Card.__eq__)
Contains(list, item) == \E i \in DOMAIN list : CardEq(list[i], item)

\* list.count(item)
Count(list, item) == Cardinality({i \in DOMAIN list : CardEq(list[i], item)})

\* list.reverse()
Reverse(list) == [i \in 1..Len(list) |-> list[Len(list) + 1 - i]]

\* list[:n]
Take(list, n) == SubSeq(list, 1, Min2(n, Len(list)))

\* list[n:]
Drop(list, n) == SubSeq(list, Min2(n, Len(list)) + 1, Len(list))

\* list[-n:]
TakeLast(list, n) == SubSeq(list, Max2(1, Len(list) - n + 1), Len(list))

\* list(filter(lambda card: card == key, list))
FilterEq(list, key) ==
    LET Test(c) == CardEq(c, key) IN SelectSeq(list, Test)

\* list(filter(lambda card: card in keys, list))
FilterIn(list, keys) ==
    LET Test(c) == Contains(keys, c) IN SelectSeq(list, Test)

\* list(filter(lambda card: card not in items, list))
FilterNotIn(list, items) ==
    LET Test(c) == ~Contains(items, c) IN SelectSeq(list, Test)

\* one step of the stable sort: x goes after every element not greater than it
InsertSorted(sorted, x) ==
    LET k == Cardinality({i \in DOMAIN sorted : ~CardLt(x, sorted[i])})
    IN SubSeq(sorted, 1, k) \o <<x>> \o SubSeq(sorted, k + 1, Len(sorted))

RECURSIVE SortCards(_)
\* list.sort(): stable, ascending by Card.__lt__
SortCards(list) ==
    IF list = <<>> THEN <<>>
    ELSE InsertSorted(SortCards(SubSeq(list, 1, Len(list) - 1)), list[Len(list)])

-----------------------------------------------------------------------------
(* Combo.Repeats *)

\* w_card / s_card of get_all_repeats: the abstract card of a card
Abstract(card, kind) ==
    IF kind = "weight" THEN WeightCard(card.w) ELSE SuitCard(card.s)

RECURSIVE RepeatCards(_, _)
\* repeats.cards: the abstract cards in the order get_all_repeats first meets them
RepeatCards(list, kind) ==
    IF list = <<>> THEN <<>>
    ELSE LET prev == RepeatCards(SubSeq(list, 1, Len(list) - 1), kind)
             a == Abstract(list[Len(list)], kind)
         IN IF Contains(prev, a) THEN prev ELSE Append(prev, a)

\* repeats.all after get_all_repeats: repeats count -> abstract cards (an absent
\* key of the dict is the empty list)
GetAllRepeats(list, kind) ==
    LET keys == RepeatCards(list, kind)
    IN [cnt \in 1..MaxCardsCount |->
            LET Test(a) == Count(list, a) = cnt IN SelectSeq(keys, Test)]

\* WeightRepeats.get_repeat_kind, on repeats.all
GetRepeatKind(all) ==
    LET none == [four |-> <<>>, three |-> <<>>, double_three |-> FALSE,
                 two |-> <<>>, double_two |-> <<>>, triple_two |-> FALSE]
    IN  IF all[4] # <<>> THEN
            [none EXCEPT !.four = <<all[4][1]>>]
        ELSE IF all[3] # <<>> THEN
            LET two1 == IF all[2] # <<>> THEN <<all[2][Len(all[2])]>> ELSE <<>>
            IN  IF Len(all[3]) = 2
                THEN [none EXCEPT !.three = <<all[3][Len(all[3])]>>,
                                  !.two = <<all[3][Len(all[3]) - 1]>>,
                                  !.double_three = TRUE]
                ELSE [none EXCEPT !.three = <<all[3][Len(all[3])]>>,
                                  !.two = two1]
        ELSE IF all[2] # <<>> THEN
            IF Len(all[2]) > 1
            THEN [none EXCEPT !.double_two = TakeLast(all[2], 2),
                              !.triple_two = (Len(all[2]) = 3)]
            ELSE [none EXCEPT !.two = <<all[2][Len(all[2])]>>]
        ELSE none

\* SuitRepeats.flush_or_not, on repeats.all
FlushOrNot(all) ==
    LET max_repeats == CHOOSE n \in DOMAIN all :
            all[n] # <<>> /\ \A m \in DOMAIN all : all[m] # <<>> => m <= n
    IN [max_repeats |-> max_repeats,
        five_or_more |-> max_repeats >= 5,
        flush_card |-> all[max_repeats][1]]

\* Repeats(cards): repeats.weight and repeats.suit
Repeats(list) ==
    [weight |-> GetRepeatKind(GetAllRepeats(list, "weight")),
     suit |-> FlushOrNot(GetAllRepeats(list, "suit"))]

-----------------------------------------------------------------------------
(* Combo.Sequence *)

\* one_more_ace that adds nothing: the Ace counts as the highest weight only
OneMoreAceHigh(list) == list

\* Sequence.one_more_ace: the last Ace again, as the card '1' + its suit, in front
OneMoreAce(list) ==
    LET aces == FilterEq(list, WeightCard(Ace))
        ace == aces[Len(aces)]
    IN <<[w |-> AceLow, s |-> ace.s, in_hand |-> ace.in_hand]>> \o list

\* Sequence.get_rank: the 14 weights from 'A' down to '1', each the last card of
\* that weight in the list, or the abstract card of the weight
GetRank(list) ==
    LET slot(n) ==
            LET at == {i \in DOMAIN list : list[i].w = n}
            IN IF at = {} THEN WeightCard(n)
               ELSE list[CHOOSE i \in at : \A j \in at : j <= i]
    IN [i \in 1..(Ace + 1) |-> slot(Ace + 1 - i)]

RECURSIVE FindOrderLoop(_, _, _, _, _)
\* the loop of Sequence.find_order from index i (0-based), with its locals
FindOrderLoop(rank, i, base, cards_in_a_row, max_in_a_row) ==
    IF i = Ace + 1 THEN
        [five_in_a_row |-> FALSE, order_cards |-> <<>>, max_in_a_row |-> max_in_a_row]
    ELSE IF rank[i + 1].s # NoSuit THEN
        IF cards_in_a_row + 1 = ComboLen
        THEN [five_in_a_row |-> TRUE,
              order_cards |-> SubSeq(rank, base + 1, base + ComboLen),
              max_in_a_row |-> Max2(max_in_a_row, cards_in_a_row + 1)]
        ELSE FindOrderLoop(rank, i + 1, base, cards_in_a_row + 1,
                           Max2(max_in_a_row, cards_in_a_row + 1))
    ELSE FindOrderLoop(rank, i + 1, i + 1, 0, max_in_a_row)

\* Sequence.find_order
FindOrder(list) == FindOrderLoop(GetRank(list), 0, 0, 0, 0)

\* Sequence(cards): [cards, order_cards, five_in_a_row, max_in_a_row]
Sequence(list) ==
    LET own == IF Contains(list, WeightCard(Ace)) THEN OneMoreAce(list) ELSE list
        found == FindOrder(own)
    IN [cards |-> own,
        order_cards |-> found.order_cards,
        five_in_a_row |-> found.five_in_a_row,
        max_in_a_row |-> found.max_in_a_row]

-----------------------------------------------------------------------------
(* Combo.Cards and the get_* extractors *)

\* get_other_cards without cards_to_add.reverse(): the lowest cards are added
GetOtherCardsLowest(items, all_cards) ==
    LET cards_to_add == FilterNotIn(all_cards, items)
    IN IF cards_to_add # <<>>
       THEN items \o Take(cards_to_add, ComboLen - Len(items))
       ELSE items

\* Combo.Cards.get_other_cards: the cards of all_cards not (by weight) among the
\* items, highest first, as many as the 5 places leave free
GetOtherCards(items, all_cards) ==
    LET cards_to_add == FilterNotIn(all_cards, items)
    IN IF cards_to_add # <<>>
       THEN items \o Take(Reverse(cards_to_add), ComboLen - Len(items))
       ELSE items

\* Combo.get_straight_flush
GetStraightFlush(seq) == seq.order_cards

\* Combo.get_four_of_a_kind
GetFourOfAKind(init_cards, weight) ==
    GetOtherCards(FilterEq(init_cards, weight.four[1]), init_cards)

\* get_full_house adding the pair before the set
GetFullHousePairFirst(init_cards, weight) ==
    LET the_set == FilterEq(init_cards, weight.three[1])
        pair == Take(FilterEq(init_cards, weight.two[1]), 2)
    IN pair \o the_set

\* Combo.get_full_house
GetFullHouse(init_cards, weight) ==
    LET the_set == FilterEq(init_cards, weight.three[1])
        pair == Take(FilterEq(init_cards, weight.two[1]), 2)
    IN the_set \o pair

\* get_flush taking the first five cards of the suit instead of the last five
GetFlushLowest(seq) == Reverse(Take(seq.cards, ComboLen))

\* Combo.get_flush
GetFlush(seq) == Reverse(TakeLast(seq.cards, ComboLen))

\* Combo.get_straight
GetStraight(seq) == seq.order_cards

\* Combo.get_three_of_a_kind
GetThreeOfAKind(init_cards, weight) ==
    GetOtherCards(FilterEq(init_cards, weight.three[1]), init_cards)

\* get_two_pairs adding the pairs as filtered, the lower pair first
GetTwoPairsLowFirst(init_cards, weight) ==
    GetOtherCards(FilterIn(init_cards, weight.double_two), init_cards)

\* Combo.get_two_pairs
GetTwoPairs(init_cards, weight) ==
    LET pairs == FilterIn(init_cards, weight.double_two)
    IN GetOtherCards(Drop(pairs, 2) \o Take(pairs, 2), init_cards)

\* Combo.get_one_pair
GetOnePair(init_cards, weight) ==
    GetOtherCards(FilterEq(init_cards, weight.two[1]), init_cards)

\* Combo.get_high_card
GetHighCard(init_cards) == Reverse(TakeLast(init_cards, ComboLen))

\* Combo.find_combo on the sorted init_cards: the type and the combination cards
FindSorted(init_cards) ==
    LET repeats == Repeats(init_cards)
        weight == repeats.weight
        found(type, items) ==
            [type |-> type, cards |-> items, init_cards |-> init_cards,
             weight |-> weight]
    IN  IF ~repeats.suit.five_or_more THEN
            LET seq == Sequence(init_cards)
            IN  IF weight.four # <<>> THEN
                    found(FOUR_OF_A_KIND, GetFourOfAKind(init_cards, weight))
                ELSE IF weight.three # <<>> /\ weight.two # <<>> THEN
                    found(FULL_HOUSE, GetFullHouse(init_cards, weight))
                ELSE IF seq.five_in_a_row THEN
                    found(STRAIGHT, GetStraight(seq))
                ELSE IF weight.three # <<>> THEN
                    found(THREE_OF_A_KIND, GetThreeOfAKind(init_cards, weight))
                ELSE IF weight.double_two # <<>> THEN
                    found(TWO_PAIRS, GetTwoPairs(init_cards, weight))
                ELSE IF weight.two # <<>> THEN
                    found(ONE_PAIR, GetOnePair(init_cards, weight))
                ELSE
                    found(HIGH_CARD, GetHighCard(init_cards))
        ELSE
            LET seq == Sequence(FilterEq(init_cards, repeats.suit.flush_card))
            IN  IF seq.five_in_a_row
                THEN found(STRAIGHT_FLUSH, GetStraightFlush(seq))
                ELSE found(FLUSH, GetFlush(seq))

\* Combo.find_combo: self.init_cards.sort(), then the classification
\* find_combo with sort(reverse=True) and reverse() for sort(): the cards of one
\* weight change places
FindComboTiesReversed(init_cards) == FindSorted(SortCards(Reverse(init_cards)))

\* Combo.find_combo: sort the list, then find the combination
FindCombo(init_cards) == FindSorted(SortCards(init_cards))

-----------------------------------------------------------------------------
(* The contribution flags *)

NoFlags == [is_real |-> FALSE, is_nominal |-> FALSE, is_half_nominal |-> FALSE]

\* for card in cards: if card.in_hand
AnyInHand(list) == \E i \in DOMAIN list : list[i].in_hand

\* half_nominal_finder with "if" for "elif": two groups set is_half_nominal too
HalfNominalFinderBoth(card_set) ==
    LET combo_cards_in_hand ==
            Cardinality({i \in DOMAIN card_set : AnyInHand(card_set[i])})
    IN  [is_real |-> combo_cards_in_hand = 2,
         is_half_nominal |-> combo_cards_in_hand >= 1,
         is_nominal |-> combo_cards_in_hand = 0]

\* Combo.half_nominal_finder
HalfNominalFinder(card_set) ==
    LET combo_cards_in_hand ==
            Cardinality({i \in DOMAIN card_set : AnyInHand(card_set[i])})
    IN  IF combo_cards_in_hand = 2 THEN [NoFlags EXCEPT !.is_real = TRUE]
        ELSE IF combo_cards_in_hand = 1 THEN [NoFlags EXCEPT !.is_half_nominal = TRUE]
        ELSE [NoFlags EXCEPT !.is_nominal = TRUE]

\* check_nominal_combo looking at the kickers of one pair too
CheckNominalComboKickers(f) ==
    IF f.type = FULL_HOUSE THEN
        HalfNominalFinder(<<FilterEq(f.init_cards, f.weight.three[1]),
                            FilterEq(f.init_cards, f.weight.two[1])>>)
    ELSE IF f.type = TWO_PAIRS THEN
        HalfNominalFinder(<<SubSeq(f.cards, 1, 2), SubSeq(f.cards, 3, 4)>>)
    ELSE
        LET part == IF f.type = FOUR_OF_A_KIND THEN Take(f.cards, 4)
                    ELSE IF f.type = THREE_OF_A_KIND THEN Take(f.cards, 3)
                    ELSE f.cards
        IN  IF AnyInHand(part) THEN [NoFlags EXCEPT !.is_real = TRUE]
            ELSE [NoFlags EXCEPT !.is_nominal = TRUE]

\* Combo.check_nominal_combo, on what find_combo found
CheckNominalCombo(f) ==
    IF f.type = FULL_HOUSE THEN
        HalfNominalFinder(<<FilterEq(f.init_cards, f.weight.three[1]),
                            FilterEq(f.init_cards, f.weight.two[1])>>)
    ELSE IF f.type = TWO_PAIRS THEN
        HalfNominalFinder(<<SubSeq(f.cards, 1, 2), SubSeq(f.cards, 3, 4)>>)
    ELSE
        LET part == IF f.type = FOUR_OF_A_KIND THEN Take(f.cards, 4)
                    ELSE IF f.type = THREE_OF_A_KIND THEN Take(f.cards, 3)
                    ELSE IF f.type = ONE_PAIR THEN Take(f.cards, 2)
                    ELSE f.cards
        IN  IF AnyInHand(part) THEN [NoFlags EXCEPT !.is_real = TRUE]
            ELSE [NoFlags EXCEPT !.is_nominal = TRUE]

\* Combo.__init__ after init_cards is chosen: find_combo, then the nominal check
\* when it is needed
NewCombo(init_cards, nominal_check_needed) ==
    LET f == FindCombo(init_cards)
        flags == IF nominal_check_needed THEN CheckNominalCombo(f) ELSE NoFlags
    IN [type |-> f.type, cards |-> f.cards, init_cards |-> f.init_cards,
        is_real |-> flags.is_real, is_nominal |-> flags.is_nominal,
        is_half_nominal |-> flags.is_half_nominal]

-----------------------------------------------------------------------------
(* The comparator *)

\* compare letting the last pair of cards that differ decide
CardsCompareLast(self, that, condition, even) ==
    LET diff == {i \in 1..Min2(Len(self), Len(that)) : CardNe(self[i], that[i])}
    IN  IF diff = {} THEN even
        ELSE LET i == CHOOSE k \in diff : \A j \in diff : k >= j
             IN CASE condition = "<" -> CardLt(self[i], that[i])
                  [] condition = ">" -> CardGt(self[i], that[i])
                  [] condition = "==" -> CardEq(self[i], that[i])
                  [] condition = "!=" -> CardNe(self[i], that[i])

\* Combo.Cards.compare: the first pair of cards that differ decides
CardsCompare(self, that, condition, even) ==
    LET diff == {i \in 1..Min2(Len(self), Len(that)) : CardNe(self[i], that[i])}
    IN  IF diff = {} THEN even
        ELSE LET i == CHOOSE k \in diff : \A j \in diff : k <= j
             IN CASE condition = "<" -> CardLt(self[i], that[i])
                  [] condition = ">" -> CardGt(self[i], that[i])
                  [] condition = "==" -> CardEq(self[i], that[i])
                  [] condition = "!=" -> CardNe(self[i], that[i])

\* Combo.Cards.__lt__, __gt__, __eq__, __ne__
CardsLt(self, that) == CardsCompare(self, that, "<", FALSE)

CardsGt(self, that) == CardsCompare(self, that, ">", FALSE)

CardsEq(self, that) == CardsCompare(self, that, "==", TRUE)

CardsNe(self, that) == CardsCompare(self, that, "!=", FALSE)

\* Combo.__lt__: the tuples (type, cards) compared as Python compares tuples, the
\* first item that is not == deciding
ComboLt(self, that) ==
    IF self.type # that.type THEN self.type < that.type
    ELSE IF ~CardsEq(self.cards, that.cards) THEN CardsLt(self.cards, that.cards)
    ELSE FALSE

\* Combo.__gt__
ComboGt(self, that) ==
    IF self.type # that.type THEN self.type > that.type
    ELSE IF ~CardsEq(self.cards, that.cards) THEN CardsGt(self.cards, that.cards)
    ELSE FALSE

\* Combo.__eq__
ComboEq(self, that) ==
    IF self.type # that.type THEN FALSE
    ELSE IF ~CardsEq(self.cards, that.cards) THEN FALSE
    ELSE TRUE

\* Combo.__ne__
ComboNe(self, that) ==
    IF self.type # that.type THEN TRUE
    ELSE IF ~CardsEq(self.cards, that.cards) THEN TRUE
    ELSE FALSE

-----------------------------------------------------------------------------
(* The card containers.  A cards string is the sequence of its signs, a sign *)
(* the pair <<weight number, suit index>> of its two symbols.                *)

WeightSymbols == <<"1", "2", "3", "4", "5", "6", "7", "8", "9", "T", "J", "Q", "K", "A">>

\* Cards.__init__: the first max_cards_count signs of the string as new cards
CardsNew(cards_string, max_cards_count) ==
    [i \in 1..Min2(Len(cards_string), max_cards_count) |->
        Card(cards_string[i][1], cards_string[i][2])]

\* Table.__init__
TableNew(cards_string) == CardsNew(cards_string, TableMaxCount)

\* Hand.typing on the items of a hand: sort, reverse, type and is_pair
Typing(self) ==
    LET items == Reverse(SortCards(self.items))
        type == WeightSymbols[items[1].w + 1] \o WeightSymbols[items[2].w + 1]
    IN  IF CardEq(items[1], items[2])
        THEN [self EXCEPT !.items = items, !.type = type, !.is_pair = TRUE]
        ELSE [self EXCEPT !.items = items,
                          !.type = type \o (IF items[1].s = items[2].s THEN "s" ELSE "o")]

\* Hand.post_get_cards: every card is marked in_hand, then typing
PostGetCards(self) ==
    Typing([self EXCEPT !.items = [i \in DOMAIN self.items |->
                                      [self.items[i] EXCEPT !.in_hand = TRUE]]])

\* Hand.__init__
HandNew(cards_string) ==
    LET self == [items |-> CardsNew(cards_string, HandMaxCount),
                 type |-> "", is_pair |-> FALSE]
    IN IF self.items # <<>> THEN PostGetCards(self) ELSE self

\* the cards string that denotes a list of cards
StringOf(list) == [i \in DOMAIN list |-> <<list[i].w, list[i].s>>]

-----------------------------------------------------------------------------
(* The inputs: card groups dealt from a part of the deck *)

\* groups are dealt from the first DeckSize cards of DeckOrder
DeckSize == 13

\* Deck.refresh's 52 signs
AllSigns == (Two..Ace) \X (1..NumSuits)

SignBefore(a, b) == a[1] < b[1] \/ (a[1] = b[1] /\ a[2] < b[2])

RECURSIVE Descending(_)
\* the signs of a set, highest first
Descending(S) ==
    IF S = {} THEN <<>>
    ELSE LET top == CHOOSE x \in S : \A y \in S \ {x} : SignBefore(y, x)
         IN <<top>> \o Descending(S \ {top})

\* the cards that make every kind of combination come first: four Threes, three
\* Fours, two Fives, and the clubs Two, Six, Eight and Ace; then a second Ace
FirstSigns ==
    << <<2, 1>>, <<2, 2>>, <<2, 3>>, <<2, 4>>, <<3, 1>>, <<3, 2>>, <<3, 3>>,
       <<4, 1>>, <<4, 2>>, <<1, 1>>, <<5, 1>>, <<7, 1>>, <<13, 1>>, <<13, 2>> >>

DeckOrder ==
    FirstSigns \o
    Reverse(Descending(AllSigns \ {FirstSigns[i] : i \in DOMAIN FirstSigns}))

DeckSigns == {DeckOrder[i] : i \in 1..DeckSize}

\* the groups of 5 to 7 distinct cards of the deck
Groups == {S \in SUBSET DeckSigns : Cardinality(S) \in ComboLen..MaxCardsCount}

\* a group as a cards string, highest card first or lowest card first
GroupString(S, lowest_first) ==
    IF lowest_first THEN Reverse(Descending(S)) ELSE Descending(S)

NoCombo == <<>>
NoCall == [mode |-> "none", nominal_check |-> FALSE]
NoHand == HandNew(<<>>)

\* a raw group: Cards(cards_string)
InitCards ==
    /\ \E S \in Groups, lowest_first \in BOOLEAN :
           cards = CardsNew(GroupString(S, lowest_first), MaxCardsCount)
    /\ table = <<>>
    /\ hand = NoHand

\* a table and a hand: Table(cards_string) of 3 to 5 cards, Hand(cards_string) of 2
InitTableHand ==
    /\ \E S \in Groups : \E H \in SUBSET S :
           /\ Cardinality(H) = HandMaxCount
           /\ table = TableNew(GroupString(S \ H, FALSE))
           /\ hand = HandNew(GroupString(H, TRUE))
    /\ cards = <<>>

Init ==
    /\ InitCards \/ InitTableHand
    /\ rival = <<>>
    /\ combo = NoCombo
    /\ other = NoCombo
    /\ sequence = <<>>
    /\ call = NoCall

\* Combo(cards_string=...): init_cards is the items of a new Cards
ComboFromCardsString(nominal_check) ==
    /\ combo = NoCombo
    /\ cards # <<>>
    /\ combo' = NewCombo(CardsNew(StringOf(cards), MaxCardsCount), FALSE)
    /\ call' = [mode |-> "cards_string", nominal_check |-> nominal_check]
    /\ UNCHANGED <<cards, table, hand, rival, other, sequence>>

\* Combo(cards=...): init_cards is cards.items itself, which find_combo sorts
ComboFromCards(nominal_check) ==
    /\ combo = NoCombo
    /\ cards # <<>>
    /\ combo' = NewCombo(cards, FALSE)
    /\ cards' = combo'.init_cards
    /\ call' = [mode |-> "cards", nominal_check |-> nominal_check]
    /\ UNCHANGED <<table, hand, rival, other, sequence>>

\* Combo(table=..., hand=...): init_cards is the new list table.items + hand.items
ComboFromTableHand(nominal_check) ==
    /\ combo = NoCombo
    /\ table # <<>>
    /\ combo' = NewCombo(table \o hand.items, nominal_check)
    /\ call' = [mode |-> "table_hand", nominal_check |-> nominal_check]
    /\ UNCHANGED <<cards, table, hand, rival, other, sequence>>

Next ==
    \E nominal_check \in BOOLEAN :
        \/ ComboFromCardsString(nominal_check)
        \/ ComboFromCards(nominal_check)
        \/ ComboFromTableHand(nominal_check)

Spec == Init /\ [][Next]_vars

-----------------------------------------------------------------------------
(* Raw groups only *)

InitGroup ==
    /\ InitCards
    /\ rival = <<>>
    /\ combo = NoCombo
    /\ other = NoCombo
    /\ sequence = <<>>
    /\ call = NoCall

NextGroup ==
    \/ ComboFromCardsString(FALSE)
    \/ ComboFromCards(FALSE)

SpecGroup == InitGroup /\ [][NextGroup]_vars

-----------------------------------------------------------------------------
(* Two groups of 5 cards compared: a group, and it with one card exchanged *)

InitCompare ==
    /\ \E S \in {G \in Groups : Cardinality(G) = ComboLen} :
       \E out \in S : \E in \in DeckSigns \ S :
           /\ cards = CardsNew(GroupString(S, FALSE), MaxCardsCount)
           /\ rival = CardsNew(GroupString((S \ {out}) \cup {in}, FALSE), MaxCardsCount)
    /\ table = <<>>
    /\ hand = NoHand
    /\ combo = NoCombo
    /\ other = NoCombo
    /\ sequence = <<>>
    /\ call = NoCall

\* combo = Combo(cards_string of cards); other = Combo(cards_string of rival)
Showdown ==
    /\ combo = NoCombo
    /\ combo' = NewCombo(CardsNew(StringOf(cards), MaxCardsCount), FALSE)
    /\ other' = NewCombo(CardsNew(StringOf(rival), MaxCardsCount), FALSE)
    /\ call' = [mode |-> "cards_string", nominal_check |-> FALSE]
    /\ UNCHANGED <<cards, table, hand, rival, sequence>>

NextCompare == Showdown

SpecCompare == InitCompare /\ [][NextCompare]_vars

-----------------------------------------------------------------------------
(* Combo.Sequence on its own, on sorted lists of 5 to 7 cards of any weights *)

InitSequence ==
    /\ \E W \in SUBSET (Two..Ace) :
           /\ Cardinality(W) \in ComboLen..MaxCardsCount
           /\ cards = SortCards(CardsNew(Descending({<<w, 1 + (w % 2)>> : w \in W}),
                                         MaxCardsCount))
    /\ table = <<>>
    /\ hand = NoHand
    /\ rival = <<>>
    /\ combo = NoCombo
    /\ other = NoCombo
    /\ sequence = <<>>
    /\ call = NoCall

\* Sequence(cards=self.init_cards[:])
NewSequence ==
    /\ sequence = <<>>
    /\ sequence' = Sequence(cards)
    /\ UNCHANGED <<cards, table, hand, rival, combo, other, call>>

NextSequence == NewSequence

SpecSequence == InitSequence /\ [][NextSequence]_vars

-----------------------------------------------------------------------------
(* Groups that are not 5 to 7 distinct cards: too few cards, 8 cards (as   *)
(* Cards.get_cards(deck, 8) leaves them), or a card given twice             *)

\* what a raise of ComboArgumentsError leaves the caller with
ComboArgumentsError == [raised |-> "ComboArgumentsError"]

\* the card counts below ComboLen and the one above MaxCardsCount
WrongCounts == (0..(ComboLen - 1)) \cup {MaxCardsCount + 1}

InitMalformedCards ==
    /\ \/ \E S \in SUBSET DeckSigns :
              /\ Cardinality(S) \in WrongCounts
              /\ cards = CardsNew(GroupString(S, FALSE), MaxCardsCount + 1)
       \/ \E S \in SUBSET DeckSigns : \E twice \in S :
              /\ Cardinality(S) \in (ComboLen - 1)..(MaxCardsCount - 1)
              /\ cards = CardsNew(GroupString(S, FALSE) \o <<twice>>, MaxCardsCount)
    /\ table = <<>>
    /\ hand = NoHand

InitMalformedTableHand ==
    /\ \/ \E S \in SUBSET DeckSigns : \E H \in SUBSET S :
              /\ Cardinality(S) \in (HandMaxCount + 1)..(ComboLen - 1)
              /\ Cardinality(H) = HandMaxCount
              /\ table = TableNew(GroupString(S \ H, FALSE))
              /\ hand = HandNew(GroupString(H, TRUE))
       \/ \E S \in SUBSET DeckSigns : \E twice \in S : \E one \in DeckSigns \ {twice} :
              /\ Cardinality(S) = TableMaxCount
              /\ table = TableNew(GroupString(S, FALSE))
              /\ hand = HandNew(<<twice, one>>)
    /\ cards = <<>>

InitMalformed ==
    /\ InitMalformedCards \/ InitMalformedTableHand
    /\ rival = <<>>
    /\ combo = NoCombo
    /\ other = NoCombo
    /\ sequence = <<>>
    /\ call = NoCall

\* Combo(cards_string='') or Combo(): no argument is given, ComboArgumentsError
ComboFromNothing ==
    /\ combo = NoCombo
    /\ cards = <<>>
    /\ table = <<>>
    /\ combo' = ComboArgumentsError
    /\ call' = [mode |-> "cards_string", nominal_check |-> FALSE]
    /\ UNCHANGED <<cards, table, hand, rival, other, sequence>>

NextMalformed ==
    \/ ComboFromNothing
    \/ ComboFromCardsString(FALSE)
    \/ ComboFromCards(FALSE)
    \/ ComboFromTableHand(TRUE)

SpecMalformed == InitMalformed /\ [][NextMalformed]_vars

-----------------------------------------------------------------------------
(* A raw group classified, and its reported cards classified again *)

\* other = Combo(cards_string of the 5 cards combo reports)
Reclassify ==
    /\ combo # NoCombo
    /\ other = NoCombo
    /\ other' = NewCombo(CardsNew(StringOf(combo.cards), MaxCardsCount), FALSE)
    /\ UNCHANGED <<cards, table, hand, rival, combo, sequence, call>>

NextAgain ==
    \/ ComboFromCardsString(FALSE)
    \/ Reclassify

SpecAgain == InitGroup /\ [][NextAgain]_vars

-----------------------------------------------------------------------------
(* A Hand over its life: constructed, dealt from a Deck, cleaned.  Here cards *)
(* is Deck.cards, the cards still in the deck.                               *)

\* the deck of the hands holds the first HandDeckSize cards of DeckOrder
HandDeckSize == 8

\* Deck.refresh
Refresh == [i \in 1..HandDeckSize |-> Card(DeckOrder[i][1], DeckOrder[i][2])]

\* list.pop(i)
Pop(list, i) == SubSeq(list, 1, i - 1) \o SubSeq(list, i + 1, Len(list))

\* Hand.clean: items and type are reset; the assignment is to self.pair, so
\* is_pair keeps its value
Clean(self) == [self EXCEPT !.items = <<>>, !.type = ""]

InitHand ==
    /\ cards = Refresh
    /\ hand = NoHand
    /\ table = <<>>
    /\ rival = <<>>
    /\ combo = NoCombo
    /\ other = NoCombo
    /\ sequence = <<>>
    /\ call = NoCall

\* hand = Hand() or hand = Hand(cards_string) of two different signs
HandConstruct ==
    /\ \/ hand' = HandNew(<<>>)
       \/ \E a, b \in {StringOf(Refresh)[i] : i \in 1..HandDeckSize} :
              a # b /\ hand' = HandNew(<<a, b>>)
    /\ UNCHANGED <<cards, table, rival, combo, other, sequence, call>>

\* hand.get_cards(deck): Deck.push_cards(2) pops two cards at random indices,
\* then post_get_cards
HandGetCards ==
    /\ Len(cards) >= HandMaxCount
    /\ \E i \in 1..Len(cards) : \E j \in 1..(Len(cards) - 1) :
           LET rest == Pop(cards, i)
           IN  /\ hand' = PostGetCards([hand EXCEPT !.items = <<cards[i], rest[j]>>])
               /\ cards' = Pop(rest, j)
    /\ UNCHANGED <<table, rival, combo, other, sequence, call>>

\* hand.clean()
HandClean ==
    /\ hand' = Clean(hand)
    /\ UNCHANGED <<cards, table, rival, combo, other, sequence, call>>

\* deck.refresh()
DeckRefresh ==
    /\ cards' = Refresh
    /\ UNCHANGED <<hand, table, rival, combo, other, sequence, call>>

NextHand ==
    \/ HandConstruct
    \/ HandGetCards
    \/ HandClean
    \/ DeckRefresh

SpecHand == InitHand /\ [][NextHand]_vars

-----------------------------------------------------------------------------
(* Vocabulary of the properties, independent of the operators above *)

WeightsOf(list) == [i \in DOMAIN list |-> list[i].w]

\* the sub-list of a list at the positions I
SubList(list, I) ==
    [k \in 1..Cardinality(I) |->
        list[CHOOSE i \in I : Cardinality({j \in I : j <= i}) = k]]

\* the groups of 5 cards taken from a list
FiveCardGroups(list) ==
    {SubList(list, I) : I \in {J \in SUBSET DOMAIN list : Cardinality(J) = ComboLen}}

\* a set of weights holds 5 consecutive weights in the order A(low), 2, ..., K, A
RunStarts(W) ==
    LET slots == W \cup (IF Ace \in W THEN {AceLow} ELSE {})
    IN {k \in AceLow..(Ace - ComboLen + 1) : \A d \in 0..(ComboLen - 1) : k + d \in slots}

HasRun(W) == RunStarts(W) # {}

\* the cards of a list that have the weight w, as positions
AtWeight(list, w) == {i \in DOMAIN list : list[i].w = w}

AtSuit(list, s) == {i \in DOMAIN list : list[i].s = s}

\* some suit has 5 or more cards of the list, 5 of them in a row
SuitedRun(list) ==
    \E s \in 1..NumSuits :
        /\ Cardinality(AtSuit(list, s)) >= ComboLen
        /\ HasRun({list[i].w : i \in AtSuit(list, s)})

HasFourSame(list) == \E i \in DOMAIN list : Cardinality(AtWeight(list, list[i].w)) = 4

HasSetAndPair(list) ==
    \E i, j \in DOMAIN list :
        /\ list[i].w # list[j].w
        /\ Cardinality(AtWeight(list, list[i].w)) >= 3
        /\ Cardinality(AtWeight(list, list[j].w)) >= 2

\* the card of the group that a combination card stands for: the low Ace '1' of a
\* wheel stands for the Ace of its suit
Original(card) == IF card.w = AceLow THEN [card EXCEPT !.w = Ace] ELSE card

-----------------------------------------------------------------------------
(* C1: for a group of 5 to 7 distinct cards the Combo is the best hand of the   *)
(* group: it is >= (Combo.__gt__ or Combo.__eq__) the Combo of every 5 cards of *)
(* the group and == the Combo of some 5 cards of it; a four of a kind or a set  *)
(* with a pair in the group is never classified lower than that, and a suit     *)
(* with >= 5 cards holding 5 in a row gives a straight flush.                   *)
C1_BestHand ==
    combo # NoCombo =>
        LET subs == {NewCombo(g, FALSE) : g \in FiveCardGroups(combo.init_cards)}
        IN  /\ \A t \in subs : ComboGt(combo, t) \/ ComboEq(combo, t)
            /\ \E t \in subs : ComboEq(combo, t)
            /\ HasFourSame(combo.init_cards) => combo.type >= FOUR_OF_A_KIND
            /\ HasSetAndPair(combo.init_cards) => combo.type >= FULL_HOUSE
            /\ SuitedRun(combo.init_cards) => combo.type = STRAIGHT_FLUSH

\* a group of 7 with 5 cards of a suit and three cards of a weight, a flush
C1_Witness ==
    /\ combo # NoCombo
    /\ Len(combo.init_cards) = MaxCardsCount
    /\ combo.type = FLUSH
    /\ \E i \in DOMAIN combo.init_cards :
           Cardinality(AtWeight(combo.init_cards, combo.init_cards[i].w)) = 3

-----------------------------------------------------------------------------
\* the sizes of the weight-groups of the combination-defining cards of a kind, in
\* the order they take in Combo.cards; the other cards of the 5 are kickers
DefiningGroups(type) ==
    CASE type = HIGH_CARD -> <<>>
      [] type = ONE_PAIR -> <<2>>
      [] type = TWO_PAIRS -> <<2, 2>>
      [] type = THREE_OF_A_KIND -> <<3>>
      [] type = FULL_HOUSE -> <<3, 2>>
      [] type = FOUR_OF_A_KIND -> <<4>>
      [] OTHER -> <<ComboLen>>

DefiningCount(type) ==
    LET g == DefiningGroups(type)
    IN IF g = <<>> THEN 0 ELSE IF Len(g) = 1 THEN g[1] ELSE g[1] + g[2]

\* the positions in the group of the cards that the positions P of Combo.cards hold
GroupPositions(c, P) ==
    {j \in DOMAIN c.init_cards : \E i \in P : Original(c.cards[i]) = c.init_cards[j]}

-----------------------------------------------------------------------------
\* what a Combination is compared by: its kind, then the weights of its 5 cards
Key(c) == <<c.type>> \o WeightsOf(c.cards)

\* the lexicographic order of two keys of the same length
LexLess(x, y) ==
    \E i \in DOMAIN x : x[i] < y[i] /\ \A j \in 1..(i - 1) : x[j] = y[j]

BoolCount(bools) == Cardinality({i \in DOMAIN bools : bools[i]})

(* C3: the comparison of two Combinations is the total order of their keys      *)
(* (kind, then the weights of the 5 cards in order): exactly one of a < b,      *)
(* a == b, a > b holds and a != b is the negation of a == b; a < b holds        *)
(* exactly when the key of a is lexicographically less, so a different kind     *)
(* decides and else the first position whose weights differ; a == b holds       *)
(* exactly when the keys are equal, whatever the suits; b > a agrees with a < b.*)
C3_TotalOrder ==
    (combo # NoCombo /\ other # NoCombo) =>
        /\ BoolCount(<<ComboLt(combo, other), ComboEq(combo, other),
                       ComboGt(combo, other)>>) = 1
        /\ ComboNe(combo, other) <=> ~ComboEq(combo, other)
        /\ ComboLt(combo, other) <=> LexLess(Key(combo), Key(other))
        /\ ComboGt(combo, other) <=> LexLess(Key(other), Key(combo))
        /\ ComboEq(combo, other) <=> Key(combo) = Key(other)
        /\ ComboLt(combo, other) <=> ComboGt(other, combo)
        /\ ComboGt(combo, other) <=> ComboLt(other, combo)
        /\ ComboEq(combo, other) <=> ComboEq(other, combo)

\* two Combinations of the same kind: the first weights that differ say a < b, a
\* later position says the opposite
C3_Witness ==
    /\ combo # NoCombo /\ other # NoCombo
    /\ combo.type = other.type
    /\ \E i, j \in 1..ComboLen :
           /\ i < j
           /\ \A k \in 1..(i - 1) : combo.cards[k].w = other.cards[k].w
           /\ combo.cards[i].w < other.cards[i].w
           /\ combo.cards[j].w > other.cards[j].w
    /\ ComboLt(combo, other)

-----------------------------------------------------------------------------
\* the highest 5 consecutive weights of a set that has a run, highest first, the
\* low Ace as weight 0
BestRun(W) ==
    LET k == CHOOSE r \in RunStarts(W) : \A q \in RunStarts(W) : q <= r
    IN [i \in 1..ComboLen |-> k + ComboLen - i]

\* the 6-high straight 6, 5, 4, 3, 2
SixHigh == Sequence(<<Card(1, 1), Card(2, 2), Card(3, 1), Card(4, 2), Card(5, 1)>>)

(* C4: a card list has five_in_a_row exactly when its weights hold 5            *)
(* consecutive weights in the order A(low), 2, ..., K, A(high), without         *)
(* wrapping; order_cards is then the highest such run, highest first, made of   *)
(* the list's cards, the Ace of a wheel last as the low Ace of the same suit;   *)
(* and a wheel compares strictly below the 6-high straight.                     *)
C4_SequenceRuns ==
    sequence # <<>> =>
        LET W == {cards[i].w : i \in DOMAIN cards}
        IN  /\ sequence.five_in_a_row <=> HasRun(W)
            /\ ~sequence.five_in_a_row => sequence.order_cards = <<>>
            /\ sequence.five_in_a_row =>
                   /\ WeightsOf(sequence.order_cards) = BestRun(W)
                   /\ \A i \in 1..ComboLen :
                          \E j \in DOMAIN cards :
                              Original(sequence.order_cards[i]) = cards[j]
            /\ (sequence.five_in_a_row /\ sequence.order_cards[ComboLen].w = AceLow) =>
                   /\ WeightsOf(sequence.order_cards) = <<4, 3, 2, 1, 0>>
                   /\ CardsLt(sequence.order_cards, SixHigh.order_cards)
                   /\ ~CardsLt(SixHigh.order_cards, sequence.order_cards)
                   /\ ~CardsEq(sequence.order_cards, SixHigh.order_cards)

\* Q, K, A, 2, 3, 4, 5: the run through the Ace does not count, the wheel does
C4_Witness ==
    /\ sequence # <<>>
    /\ {cards[i].w : i \in DOMAIN cards} = {11, 12, 13, 1, 2, 3, 4}
    /\ sequence.five_in_a_row
    /\ sequence.order_cards[ComboLen].w = AceLow

-----------------------------------------------------------------------------
\* the weights that exactly n cards of a list have
WeightsRepeated(list, n) ==
    {list[i].w : i \in {j \in DOMAIN list : Cardinality(AtWeight(list, list[j].w)) = n}}

Highest(W) == CHOOSE w \in W : \A v \in W : v <= w

Lowest(W) == CHOOSE w \in W : \A v \in W : w <= v

(* C5: a group of 7 distinct cards that holds two different three-of-a-kinds is *)
(* a full house: its first 3 cards are the three cards of the higher triple,    *)
(* its last 2 cards are two cards of the lower triple.                          *)
C5_TwoTriples ==
    (/\ combo # NoCombo
     /\ Len(combo.init_cards) = MaxCardsCount
     /\ Cardinality(WeightsRepeated(combo.init_cards, 3)) = 2) =>
        LET triples == WeightsRepeated(combo.init_cards, 3)
        IN  /\ combo.type = FULL_HOUSE
            /\ Len(combo.cards) = ComboLen
            /\ GroupPositions(combo, 1..3) = AtWeight(combo.init_cards, Highest(triples))
            /\ GroupPositions(combo, 4..5) \subseteq
                   AtWeight(combo.init_cards, Lowest(triples))
            /\ Cardinality(GroupPositions(combo, 4..5)) = 2
            /\ \A i \in 4..5 : combo.cards[i].w = Lowest(triples)

\* two triples classified from a table and a hand that holds a card of each
C5_Witness ==
    /\ combo # NoCombo
    /\ Len(combo.init_cards) = MaxCardsCount
    /\ Cardinality(WeightsRepeated(combo.init_cards, 3)) = 2
    /\ call.mode = "table_hand"
    /\ hand.items[1].w # hand.items[2].w
    /\ \A k \in 1..2 : hand.items[k].w \in WeightsRepeated(combo.init_cards, 3)

(* C6: a group of 7 distinct cards with three different pair weights (no flush, *)
(* no straight) is two pairs: the highest pair, then the second-highest pair,   *)
(* then the highest of the three remaining cards, the cards of the lowest pair  *)
(* among them.                                                                  *)
C6_ThreePairs ==
    (/\ combo # NoCombo
     /\ Len(combo.init_cards) = MaxCardsCount
     /\ Cardinality(WeightsRepeated(combo.init_cards, 2)) = 3
     /\ ~HasRun({combo.init_cards[i].w : i \in DOMAIN combo.init_cards})
     /\ \A s \in 1..NumSuits : Cardinality(AtSuit(combo.init_cards, s)) < ComboLen) =>
        LET pairs == WeightsRepeated(combo.init_cards, 2)
            top == Highest(pairs)
            second == Highest(pairs \ {top})
            rest == {combo.init_cards[i].w : i \in DOMAIN combo.init_cards} \ {top, second}
        IN  /\ combo.type = TWO_PAIRS
            /\ WeightsOf(combo.cards) = <<top, top, second, second, Highest(rest)>>
            /\ Cardinality(GroupPositions(combo, 1..ComboLen)) = ComboLen

\* three pairs whose lowest pair is higher than the seventh card: a card of the
\* lowest pair is the kicker
C6_Witness ==
    /\ combo # NoCombo
    /\ Len(combo.init_cards) = MaxCardsCount
    /\ Cardinality(WeightsRepeated(combo.init_cards, 2)) = 3
    /\ combo.cards[ComboLen].w = Lowest(WeightsRepeated(combo.init_cards, 2))

-----------------------------------------------------------------------------
\* the constructor call was Combo(table=..., hand=..., nominal_check=True)
ContributionPass ==
    combo # NoCombo /\ call.mode = "table_hand" /\ call.nominal_check

\* a card of the hand is among the cards at the positions P of Combo.cards
HandCardAt(P) ==
    \E i \in P : \E k \in DOMAIN hand.items :
        /\ Original(combo.cards[i]).w = hand.items[k].w
        /\ combo.cards[i].s = hand.items[k].s

(* C7: at most one of is_real, is_nominal, is_half_nominal is true; exactly one *)
(* after Combo(table, hand, nominal_check=True); none after any other           *)
(* construction (cards_string, cards, or table and hand without nominal_check). *)
C7_FlagsExclusive ==
    combo # NoCombo =>
        LET n == BoolCount(<<combo.is_real, combo.is_nominal, combo.is_half_nominal>>)
        IN  /\ n <= 1
            /\ ContributionPass => n = 1
            /\ ~ContributionPass => n = 0

\* a raw group classified with nominal_check=True asked for: no flag is set
C7_Witness ==
    /\ combo # NoCombo
    /\ call.mode = "cards"
    /\ call.nominal_check
    /\ ~combo.is_real /\ ~combo.is_nominal /\ ~combo.is_half_nominal

(* C8: for a full house or two pairs classified with the contribution pass, of  *)
(* the two weight-groups as they appear among the 5 cards (set and pair, or the *)
(* two pairs): is_real iff both hold a hand card, is_half_nominal iff exactly   *)
(* one does, is_nominal iff none does; so is_real or is_half_nominal implies a  *)
(* hand card among the 5 cards.                                                 *)
C8_CompoundContribution ==
    (ContributionPass /\ combo.type \in {FULL_HOUSE, TWO_PAIRS}) =>
        LET first == IF combo.type = FULL_HOUSE THEN 1..3 ELSE 1..2
            second == IF combo.type = FULL_HOUSE THEN 4..5 ELSE 3..4
            n == BoolCount(<<HandCardAt(first), HandCardAt(second)>>)
        IN  /\ combo.is_real <=> n = 2
            /\ combo.is_half_nominal <=> n = 1
            /\ combo.is_nominal <=> n = 0
            /\ (combo.is_real \/ combo.is_half_nominal) => HandCardAt(1..ComboLen)

(* C9: with the contribution pass, for four of a kind, three of a kind and one  *)
(* pair is_real iff a hand card is among the 4, 3 or 2 defining cards, and for  *)
(* high card, straight, flush and straight flush iff a hand card is among the 5 *)
(* cards; otherwise is_nominal; is_half_nominal is never set for these kinds.   *)
C9_SingleContribution ==
    (ContributionPass /\ combo.type \notin {FULL_HOUSE, TWO_PAIRS}) =>
        LET part == CASE combo.type = FOUR_OF_A_KIND -> 1..4
                      [] combo.type = THREE_OF_A_KIND -> 1..3
                      [] combo.type = ONE_PAIR -> 1..2
                      [] OTHER -> 1..ComboLen
        IN  /\ combo.is_real <=> HandCardAt(part)
            /\ combo.is_nominal <=> ~HandCardAt(part)
            /\ ~combo.is_half_nominal

\* one pair of the table with a hand card among its kickers: nominal
C9_Witness ==
    /\ ContributionPass
    /\ combo.type = ONE_PAIR
    /\ HandCardAt(3..ComboLen)
    /\ combo.is_nominal

(* C10: a classification leaves the caller's card groups as they were: the item *)
(* lists of the Cards, the Table and the Hand hold the same cards in the same   *)
(* order after the call as before it.                                           *)
C10_CallerUnchanged ==
    [][(combo = NoCombo /\ combo' # NoCombo) =>
           (cards' = cards /\ table' = table /\ hand' = hand)]_vars

(* C11: a Combo built from a group whose number of cards is outside 5..7, or    *)
(* that holds the same card (weight and suit) twice, raises an error and gives  *)
(* no Combination.                                                              *)
C11_MalformedRejected ==
    LET group == IF call.mode = "table_hand" THEN table \o hand.items ELSE cards
        twice == \E i, j \in DOMAIN group :
                     i < j /\ group[i].w = group[j].w /\ group[i].s = group[j].s
    IN  (call.mode # "none" /\ (Len(group) \notin ComboLen..MaxCardsCount \/ twice))
            => "raised" \in DOMAIN combo

(* C12: classifying the 5 cards a Combo reports, as a new group, gives the same *)
(* kind and the same 5 cards (weight and suit) in the same order; the low Ace   *)
(* of a wheel is given as the low Ace.                                          *)
C12_Idempotent ==
    other # NoCombo =>
        /\ other.type = combo.type
        /\ StringOf(other.cards) = StringOf(combo.cards)

\* a wheel found among 7 cards, with a pair in the group, and classified again
C12_Witness ==
    /\ other # NoCombo
    /\ Len(cards) = MaxCardsCount
    /\ combo.type = STRAIGHT
    /\ combo.cards[ComboLen].w = AceLow
    /\ StringOf(combo.cards)[ComboLen] \notin {StringOf(cards)[i] : i \in DOMAIN cards}
    /\ \E i, j \in DOMAIN cards : i < j /\ cards[i].w = cards[j].w

(* C13: after any Hand construction, get_cards and clean calls, is_pair is true *)
(* exactly when the hand holds two cards of one weight (false when it is        *)
(* empty), and type is '' for the empty hand and otherwise the two weight       *)
(* symbols, higher first, with 's' or 'o' added only when it is not a pair.     *)
C13_HandDerivedState ==
    LET items == hand.items
        pair == Len(items) = HandMaxCount /\ items[1].w = items[2].w
        symbols == WeightSymbols[Max2(items[1].w, items[2].w) + 1]
                       \o WeightSymbols[Min2(items[1].w, items[2].w) + 1]
    IN  /\ hand.is_pair <=> pair
        /\ hand.type = IF items = <<>> THEN ""
                       ELSE IF pair THEN symbols
                       ELSE symbols \o (IF items[1].s = items[2].s THEN "s" ELSE "o")

=============================================================================
